---- MODULE Spec2Model ----
(***************************************************************************)
(* Model of the discord-scheduler: the bot's reminder loop (src/bot.py),   *)
(* the bot's chat commands and the web dashboard's routes (src/web_app.py) *)
(* acting on the shared store (tables tasks and reminder_dates).           *)
(*                                                                         *)
(* Dates are day numbers.  The code keeps dates as "%Y-%m-%d" text, whose  *)
(* order (lte, lt, eq on the column) is the order of the day numbers.      *)
(* Day 0 is a day on or after the last sample due date of init_database.   *)
(***************************************************************************)
EXTENDS Integers, Sequences, FiniteSets, TLC

\* ------------------------------------------------------------------ bounds
MaxDay == 1          \* the clock runs over days 0..MaxDay
MaxTaskId == 3       \* task ids the store can assign
MaxRowId == 12       \* reminder row ids the store can assign
MaxLoops == 2        \* reminder_loop coroutines on_ready can have created
MaxEvents == 2       \* client events (on_ready deliveries and user requests)
                     \* taken up in one behaviour

\* ------------------------------------------------------- program constants
MinReminders == 1
MaxReminders == 10

TaskIds == 1..MaxTaskId
RowIds == 1..MaxRowId
LoopIds == 1..MaxLoops
Days == 0..MaxDay

\* user ids are text: str(message.author.id) in the bot, user['id'] on the web
Users == {"1", "2"}
\* text of the user_id column the loop may find in a row that was in the table
\* before the process started
UserTexts == Users \cup {"x"}
Titles == {"a", ""}

VARIABLES
    today,      \* the calendar day datetime.today() returns
    tasks,      \* table tasks: id -> [user_id, task, due_date]
    reminders,  \* table reminder_dates: set of [id, task_id, reminder_date]
    nextTask,   \* next serial id of tasks
    nextRow,    \* next serial id of reminder_dates
    loops,      \* the reminder_loop coroutines created by on_ready
    calm,       \* the loop whose cycle ran alone so far with no store error,
                \* and whether that cycle follows such a cycle of the same loop
    req,        \* the user request (chat command or web route) in progress
    served,     \* the number of user requests taken up so far
    step,       \* what the step just taken did, when a reminder loop took it
    last,       \* the outcome of the user request the step just taken ended
    taskNotes,  \* ids of the tasks the past-due phase announced and deleted
    rowNotes    \* ids of the reminder rows the today's phase announced and
                \* deleted

vars == <<today, tasks, reminders, nextTask, nextRow, loops, calm, req, served,
          step, last, taskNotes, rowNotes>>

store == <<tasks, reminders, nextTask, nextRow>>
history == <<taskNotes, rowNotes>>

\* ------------------------------------------------------------ pure helpers
Min(S) == CHOOSE x \in S : \A y \in S : x <= y

RECURSIVE Ascending(_)
\* the elements of a finite set of integers in ascending order
Ascending(S) ==
    IF S = {} THEN << >>
    ELSE LET m == Min(S) IN <<m>> \o Ascending(S \ {m})

\* int(task['user_id']) succeeds on decimal text only
CanInt(s) == s \in Users

\* round(a / b) for b > 0 as Python rounds: to nearest, ties to even
Round(a, b) ==
    LET q == a \div b
        r == a % b
    IN  IF 2 * r < b THEN q
        ELSE IF 2 * r > b THEN q + 1
        ELSE IF q % 2 = 0 THEN q ELSE q + 1

\* (due_date - today).days where today carries the time of day: the difference
\* of the two instants, floored to whole days
DaysLeft(now, late, due) == (due - now) - (IF late THEN 1 ELSE 0)

\* the reminder dates of a task: today + round(interval * i), i = 1..n
ReminderDates(now, late, due, n) ==
    [i \in 1..n |-> now + Round(DaysLeft(now, late, due) * i, n + 1)]

\* ------------------------------------------------------------ store queries
RowsOf(t) == {r \in reminders : r.task_id = t}

Item(t, rows) == [id |-> t, user_id |-> tasks[t].user_id, rows |-> rows]

\* tasks joined (inner) with their reminder rows dated d
FetchTodaysReminders(d) ==
    LET hit(t) == {r.id : r \in {x \in RowsOf(t) : x.reminder_date = d}}
        ids == {t \in DOMAIN tasks : hit(t) # {}}
        ord == Ascending(ids)
    IN  [k \in 1..Len(ord) |-> Item(ord[k], hit(ord[k]))]

\* tasks whose due_date <= d
FetchPastDueTasks(d) ==
    LET ord == Ascending({t \in DOMAIN tasks : tasks[t].due_date <= d})
    IN  [k \in 1..Len(ord) |-> Item(ord[k], {})]

\* tasks joined (inner) with their reminder rows dated before d
FetchPastDueReminders(d) ==
    LET hit(t) == {r.id : r \in {x \in RowsOf(t) : x.reminder_date < d}}
        ids == {t \in DOMAIN tasks : hit(t) # {}}
        ord == Ascending(ids)
    IN  [k \in 1..Len(ord) |-> Item(ord[k], hit(ord[k]))]

\* ----------------------------------------------------------- store updates
\* delete from tasks where id in S
TasksAfterDelete(S) == [t \in (DOMAIN tasks) \ S |-> tasks[t]]

\* no cascade: the rows of reminder_dates stay
RemindersKept(S) == reminders

\* the reminder_dates rows of the deleted tasks go with them (cascade)
RemindersAfterCascade(S) == {r \in reminders : r.task_id \notin S}

\* the filter on reminder_date missing: every reminder row of task t goes
RemindersAfterDeleteAllOf(t, d) == {r \in reminders : r.task_id # t}

\* delete from reminder_dates where task_id = t and reminder_date = d
RemindersAfterDeleteOn(t, d) ==
    {r \in reminders : ~(r.task_id = t /\ r.reminder_date = d)}

\* delete from reminder_dates where task_id = t and reminder_date < d
RemindersAfterDeleteBefore(t, d) ==
    {r \in reminders : ~(r.task_id = t /\ r.reminder_date < d)}

\* ---------------------------------------------------------------- initial
NoReq == [op |-> "none"]
NoStep == [phase |-> "none", id |-> 0, fetch |-> "none", notify |-> "none",
           delete |-> "none"]
NoLast == [op |-> "none", result |-> "none", id |-> 0, n |-> 0, user |-> ""]
NoCalm == [loop |-> 0, again |-> FALSE]

\* a loop that is not in a cycle holds nothing the next cycle reads
IdleLoop(pc) == [pc |-> pc, today_str |-> 0, reminders |-> << >>,
                 past_due_tasks |-> << >>, past_due_reminders |-> << >>]

\* init_database leaves the tasks table non-empty: it holds the rows of
\* earlier runs and of the other clients of the shared database, or else the
\* sample rows.  Here: one task row and its reminder rows.
FoundTables ==
    { <<(1 :> [user_id |-> u, task |-> "a", due_date |-> d]),
        {[id |-> k, task_id |-> 1, reminder_date |-> rd[k]] : k \in 1..n}>> :
        u \in UserTexts, d \in Days, n \in 0..1, rd \in [1..1 -> Days] }

Init ==
    /\ today = 0
    /\ \E tb \in FoundTables :
        /\ tasks = tb[1]
        /\ reminders = tb[2]
        /\ nextTask = 2
        /\ nextRow = Cardinality(tb[2]) + 1
    /\ loops = [l \in LoopIds |-> IdleLoop("off")]
    /\ calm = NoCalm
    /\ req = NoReq
    /\ served = 0
    /\ step = NoStep
    /\ last = NoLast
    /\ taskNotes = {}
    /\ rowNotes = {}

\* ------------------------------------------------------------- scheduling
\* A coroutine of the bot runs until it awaits.  A reminder loop awaits in
\* fetch_user and send (once per item of the first two phases) and in sleep;
\* between its three fetches and through the cleanup phase it does not.
Holding(l) == loops[l].pc \in {"fetch2", "fetch3", "cleanup"}

\* a chat command between its two inserts does not await either
BotReqHolding == req.op # "none" /\ req.via = "bot"

\* coroutine l of the bot may run
LoopFree(l) == ~BotReqHolding /\ \A m \in LoopIds \ {l} : ~Holding(m)

\* a new coroutine of the bot (an event handler) may run
BotFree == ~BotReqHolding /\ \A m \in LoopIds : ~Holding(m)

\* the number of reminder loops on_ready has created
Started == Cardinality({l \in LoopIds : loops[l].pc # "off"})

\* one more client event can be taken up
CanTake == Started + served < MaxEvents

\* ---------------------------------------------------------------- history
\* An announced and deleted task or reminder row is remembered for as long as
\* it can come up again: while it is in the store or in the list of a cycle.
\* Ids are serial, so an id that is in neither never comes back.
Pending(ls) ==
    UNION {{ls[l].past_due_tasks[k].id : k \in 1..Len(ls[l].past_due_tasks)} :
            l \in LoopIds}
PendingRows(ls) ==
    UNION {UNION {ls[l].reminders[k].rows : k \in 1..Len(ls[l].reminders)} :
            l \in LoopIds}

\* the history after a step that announced and deleted tasks ts and rows rs
Noted(ts, rs) ==
    /\ taskNotes' = {t \in taskNotes \cup ts :
                        t \in DOMAIN tasks' \/ t \in Pending(loops')}
    /\ rowNotes' = {r \in rowNotes \cup rs :
                        r \in {x.id : x \in reminders'} \/ r \in PendingRows(loops')}

\* ------------------------------------------------------------ reminder loop
\* The three lists of a cycle are kept as what is left of them to process.

\* the today's reminders taken before the past-due tasks
FirstFromReminders(L, phase) ==
    IF phase \in {"ptask", "prem"} /\ Len(L.reminders) > 0 THEN "prem"
    ELSE IF phase = "ptask" /\ Len(L.past_due_tasks) > 0 THEN "ptask"
    ELSE IF Len(L.past_due_reminders) > 0 THEN "cleanup"
    ELSE "sleep"

\* the phase of the first item left at or after a phase, or the sleep
FirstFrom(L, phase) ==
    IF phase = "ptask" /\ Len(L.past_due_tasks) > 0 THEN "ptask"
    ELSE IF phase \in {"ptask", "prem"} /\ Len(L.reminders) > 0 THEN "prem"
    ELSE IF Len(L.past_due_reminders) > 0 THEN "cleanup"
    ELSE "sleep"

\* the loop goes on with the next item, or sleeps
GoOn(L, phase) ==
    LET pc == FirstFrom(L, phase)
    IN  IF pc = "sleep" THEN IdleLoop("sleep") ELSE [L EXCEPT !.pc = pc]

\* the step of loop l leaves calm only a cycle of l that nothing else touched
\* and that has met no store error
CalmAfter(l, clean) == IF calm.loop = l /\ clean THEN calm ELSE NoCalm

\* the except clause missing: a failed notify attempt ends the cycle
AfterNotifyRaised(out) == IF out = "delivered" THEN "delete" ELSE "raise"

\* Where control is after the try around fetch_user and send: the except
\* clause logs whatever was raised, so the delete that follows is reached for
\* every outcome of the notify attempt.
AfterNotify(out) == "delete"

\* on_ready: client.loop.create_task(reminder_loop())
on_ready ==
    /\ BotFree
    /\ CanTake
    /\ \E l \in LoopIds :
        /\ loops[l].pc = "off"
        /\ \A m \in LoopIds : m < l => loops[m].pc # "off"
        /\ loops' = [loops EXCEPT ![l] = IdleLoop("sleep")]
    /\ step' = NoStep
    /\ last' = NoLast
    /\ UNCHANGED <<today, store, calm, req, served, history>>

\* a cycle begins: today_str, then fetch_todays_reminders (an error gives [])
fetch_todays_reminders(l) ==
    /\ loops[l].pc = "sleep"
    /\ LoopFree(l)
    /\ \E ok \in BOOLEAN :
        /\ loops' = [loops EXCEPT ![l] =
                    [IdleLoop("fetch2") EXCEPT
                        !.today_str = today,
                        !.reminders = IF ok THEN FetchTodaysReminders(today)
                                      ELSE << >>]]
        /\ calm' = IF ok THEN [loop |-> l, again |-> (calm.loop = l)]
                   ELSE NoCalm
        /\ step' = [NoStep EXCEPT !.phase = "scan",
                                   !.fetch = IF ok THEN "done" ELSE "failed"]
    /\ last' = NoLast
    /\ UNCHANGED <<today, store, req, served>>
    /\ Noted({}, {})

fetch_past_due_tasks(l) ==
    /\ loops[l].pc = "fetch2"
    /\ \E ok \in BOOLEAN :
        /\ loops' = [loops EXCEPT
                    ![l].pc = "fetch3",
                    ![l].past_due_tasks =
                        IF ok THEN FetchPastDueTasks(loops[l].today_str)
                        ELSE << >>]
        /\ calm' = CalmAfter(l, ok)
        /\ step' = [NoStep EXCEPT !.phase = "scan",
                                   !.fetch = IF ok THEN "done" ELSE "failed"]
    /\ last' = NoLast
    /\ UNCHANGED <<today, store, req, served>>
    /\ Noted({}, {})

fetch_past_due_reminders(l) ==
    /\ loops[l].pc = "fetch3"
    /\ \E ok \in BOOLEAN :
        /\ loops' = [loops EXCEPT ![l] =
                    GoOn([loops[l] EXCEPT
                            !.past_due_reminders =
                                IF ok
                                THEN FetchPastDueReminders(loops[l].today_str)
                                ELSE << >>],
                         "ptask")]
        /\ calm' = CalmAfter(l, ok)
        /\ step' = [NoStep EXCEPT !.phase = "scan",
                                   !.fetch = IF ok THEN "done" ELSE "failed"]
    /\ last' = NoLast
    /\ UNCHANGED <<today, store, req, served>>
    /\ Noted({}, {})

NotifyOutcomes == {"delivered", "failed", "nobody"}

\* the loop gives up its cycle: reminder_loop logs the error, then sleeps
Abort(l, phase, id, out) ==
    /\ loops' = [loops EXCEPT ![l] = IdleLoop("sleep")]
    /\ step' = [NoStep EXCEPT !.phase = phase, !.id = id, !.notify = out]
    /\ calm' = CalmAfter(l, TRUE)
    /\ UNCHANGED store
    /\ Noted({}, {})

\* one turn of the for loop of process_past_due_tasks
process_past_due_tasks(l) ==
    LET L == loops[l]
        task == Head(L.past_due_tasks)
        rest == [L EXCEPT !.past_due_tasks = Tail(@)]
    IN
    /\ L.pc = "ptask"
    /\ LoopFree(l)
    /\ IF ~CanInt(task.user_id)
       THEN \* int() raises before the try
            Abort(l, "ptask", task.id, "none")
       ELSE \E out \in NotifyOutcomes, ok \in BOOLEAN :
            IF AfterNotify(out) = "delete"
            THEN /\ IF ok
                    THEN /\ tasks' = TasksAfterDelete({task.id})
                         /\ reminders' = RemindersAfterCascade({task.id})
                    ELSE UNCHANGED <<tasks, reminders>>
                 /\ loops' = [loops EXCEPT ![l] = GoOn(rest, "ptask")]
                 /\ step' = [NoStep EXCEPT
                                !.phase = "ptask", !.id = task.id,
                                !.notify = out,
                                !.delete = IF ok THEN "done" ELSE "failed"]
                 /\ calm' = CalmAfter(l, ok)
                 /\ UNCHANGED <<nextTask, nextRow>>
                 /\ Noted(IF ok THEN {task.id} ELSE {}, {})
            ELSE Abort(l, "ptask", task.id, out)
    /\ last' = NoLast
    /\ UNCHANGED <<today, req, served>>

\* one turn of the for loop of process_todays_reminders
process_todays_reminders(l) ==
    LET L == loops[l]
        reminder == Head(L.reminders)
        rest == [L EXCEPT !.reminders = Tail(@)]
    IN
    /\ L.pc = "prem"
    /\ LoopFree(l)
    /\ IF ~CanInt(reminder.user_id)
       THEN \* int() raises before the try
            Abort(l, "prem", reminder.id, "none")
       ELSE \E out \in NotifyOutcomes, ok \in BOOLEAN :
            IF AfterNotify(out) = "delete"
            THEN /\ IF ok
                    THEN reminders' =
                            RemindersAfterDeleteOn(reminder.id, L.today_str)
                    ELSE UNCHANGED reminders
                 /\ loops' = [loops EXCEPT ![l] = GoOn(rest, "prem")]
                 /\ step' = [NoStep EXCEPT
                                !.phase = "prem", !.id = reminder.id,
                                !.notify = out,
                                !.delete = IF ok THEN "done" ELSE "failed"]
                 /\ calm' = CalmAfter(l, ok)
                 /\ UNCHANGED <<tasks, nextTask, nextRow>>
                 /\ Noted({}, IF ok THEN reminder.rows ELSE {})
            ELSE Abort(l, "prem", reminder.id, out)
    /\ last' = NoLast
    /\ UNCHANGED <<today, req, served>>

\* one turn of the for loop of cleanup_past_due_reminders
cleanup_past_due_reminders(l) ==
    LET L == loops[l]
        past_due == Head(L.past_due_reminders)
        rest == [L EXCEPT !.past_due_reminders = Tail(@)]
    IN
    /\ L.pc = "cleanup"
    /\ \E ok \in BOOLEAN :
        /\ IF ok
           THEN reminders' = RemindersAfterDeleteBefore(past_due.id, L.today_str)
           ELSE UNCHANGED reminders
        /\ step' = [NoStep EXCEPT
                        !.phase = "cleanup", !.id = past_due.id,
                        !.delete = IF ok THEN "done" ELSE "failed"]
        /\ calm' = CalmAfter(l, ok)
    /\ loops' = [loops EXCEPT ![l] = GoOn(rest, "cleanup")]
    /\ last' = NoLast
    /\ UNCHANGED <<today, tasks, nextTask, nextRow, req, served>>
    /\ Noted({}, {})

reminder_loop(l) ==
    \/ fetch_todays_reminders(l)
    \/ fetch_past_due_tasks(l)
    \/ fetch_past_due_reminders(l)
    \/ process_past_due_tasks(l)
    \/ process_todays_reminders(l)
    \/ cleanup_past_due_reminders(l)

\* ------------------------------------------------------------ user requests
\* what a form field or a command part can hold
CountInputs == {0, 1, 2, MaxReminders + 1}
DueInputs == 0..(MaxDay + 1)

\* a user request ends: its outcome is kept
Done(op, result, id, n) ==
    /\ req' = NoReq
    /\ last' = [op |-> op, result |-> result, id |-> id, n |-> n, user |-> ""]

\* the store has ids left for a task with n reminders
Room(n) == nextTask <= MaxTaskId /\ nextRow + n - 1 <= MaxRowId

\* no reference from reminder_dates.task_id to tasks.id
CanInsertAlways(t) == TRUE

\* insert into reminder_dates: one row per date, refused as a whole when the
\* task row they refer to is not there (task_id references tasks.id)
CanInsertReminders(t) == t \in DOMAIN tasks
RemindersAfterInsert(t, dates) ==
    reminders \cup {[id |-> nextRow + k - 1, task_id |-> t,
                     reminder_date |-> dates[k]] : k \in 1..Len(dates)}

\* insert into tasks
TasksAfterInsert(u, title, due) ==
    tasks @@ (nextTask :> [user_id |-> u, task |-> title, due_date |-> due])

\* the lower end of the range missing from the check
ValidCountAtMost(n) == n <= MaxReminders

\* the count check of !schedule: 1 <= num_reminders <= 10
ValidCount(n) == MinReminders <= n /\ n <= MaxReminders

\* bot, !schedule: the count check, the dates, then add_task_with_reminders
\* up to its insert into tasks.  The command text is stripped before it is
\* split at " | ", so its first part, the title, is never empty.
schedule_begin ==
    /\ req = NoReq
    /\ CanTake
    /\ served' = served + 1
    /\ BotFree
    /\ \E u \in Users, title \in Titles \ {""}, due \in DueInputs, n \in CountInputs,
          late \in BOOLEAN, ok \in BOOLEAN :
        IF ~ValidCount(n)
        THEN /\ Done("create", "invalid", 0, n)
             /\ UNCHANGED store
        ELSE /\ Room(n)
             /\ IF ok
                THEN /\ tasks' = TasksAfterInsert(u, title, due)
                     /\ nextTask' = nextTask + 1
                     /\ req' = [op |-> "create", via |-> "bot", id |-> nextTask,
                                n |-> n,
                                dates |-> ReminderDates(today, late, due, n)]
                     /\ last' = NoLast
                     /\ UNCHANGED <<reminders, nextRow>>
                ELSE /\ Done("create", "failed", 0, n)
                     /\ UNCHANGED store
    /\ calm' = NoCalm
    /\ step' = NoStep
    /\ UNCHANGED <<today, loops>>
    /\ Noted({}, {})

\* web, dashboard POST: the input checks, then add_task_with_reminders up to
\* its insert into tasks
dashboard_begin ==
    /\ req = NoReq
    /\ CanTake
    /\ served' = served + 1
    /\ \E u \in Users, title \in Titles, due \in DueInputs, n \in CountInputs,
          ok \in BOOLEAN :
        IF n < MinReminders \/ n > MaxReminders
        THEN /\ Done("create", "invalid", 0, n)
             /\ UNCHANGED store
        ELSE /\ Room(n)
             /\ IF ok
                THEN /\ tasks' = TasksAfterInsert(u, title, due)
                     /\ nextTask' = nextTask + 1
                     /\ req' = [op |-> "create", via |-> "web", id |-> nextTask,
                                due |-> due, n |-> n]
                     /\ last' = NoLast
                     /\ UNCHANGED <<reminders, nextRow>>
                ELSE /\ Done("create", "failed", 0, n)
                     /\ UNCHANGED store
    /\ calm' = NoCalm
    /\ step' = NoStep
    /\ UNCHANGED <<today, loops>>
    /\ Noted({}, {})

\* add_task_with_reminders, from the reminder dates (web) to the insert into
\* reminder_dates; an error is logged and raised again, nothing is undone
add_task_with_reminders ==
    /\ req.op = "create"
    /\ \E late \in BOOLEAN, ok \in BOOLEAN :
        LET dates == IF req.via = "bot" THEN req.dates
                     ELSE ReminderDates(today, late, req.due, req.n)
        IN  /\ req.via = "bot" => late
            /\ IF ok /\ CanInsertReminders(req.id)
               THEN /\ reminders' = RemindersAfterInsert(req.id, dates)
                    /\ nextRow' = nextRow + Len(dates)
                    /\ Done("create", "ok", req.id, Len(dates))
               ELSE /\ UNCHANGED <<reminders, nextRow>>
                    /\ Done("create", "failed", req.id, Len(dates))
    /\ UNCHANGED served
    /\ calm' = NoCalm
    /\ step' = NoStep
    /\ UNCHANGED <<today, tasks, nextTask, loops>>
    /\ Noted({}, {})

\* the filter on user_id missing: the rows with id = t
TasksWithId(t, u) == {x \in DOMAIN tasks : x = t}

\* the rows of tasks with id = t and user_id = u
TasksOwned(t, u) == {x \in DOMAIN tasks : x = t /\ tasks[x].user_id = u}

\* web, delete_task: delete from tasks where id = t and user_id = u; 200 when
\* rows were deleted, 404 when none was, 500 on a store error
delete_task ==
    /\ req = NoReq
    /\ CanTake
    /\ served' = served + 1
    /\ \E t \in TaskIds, u \in Users, ok \in BOOLEAN :
        LET hit == TasksOwned(t, u)
            result == IF ~ok THEN "failed"
                      ELSE IF hit # {} THEN "ok" ELSE "notfound"
        IN  /\ IF ok
               THEN /\ tasks' = TasksAfterDelete(hit)
                    /\ reminders' = RemindersAfterCascade(hit)
               ELSE UNCHANGED <<tasks, reminders>>
            /\ req' = NoReq
            /\ last' = [op |-> "delete", result |-> result, id |-> t, n |-> 0,
                        user |-> u]
    /\ calm' = NoCalm
    /\ step' = NoStep
    /\ UNCHANGED <<today, nextTask, nextRow, loops>>
    /\ Noted({}, {})

\* bot, !remove: delete from tasks where task = title and user_id = u
remove ==
    /\ req = NoReq
    /\ CanTake
    /\ served' = served + 1
    /\ BotFree
    /\ \E title \in Titles, u \in Users, ok \in BOOLEAN :
        LET hit == {x \in DOMAIN tasks :
                        tasks[x].task = title /\ tasks[x].user_id = u}
        IN  IF ok
            THEN /\ tasks' = TasksAfterDelete(hit)
                 /\ reminders' = RemindersAfterCascade(hit)
                 /\ Done("remove", IF hit # {} THEN "ok" ELSE "notfound", 0, 0)
            ELSE /\ UNCHANGED <<tasks, reminders>>
                 /\ Done("remove", "failed", 0, 0)
    /\ calm' = NoCalm
    /\ step' = NoStep
    /\ UNCHANGED <<today, nextTask, nextRow, loops>>
    /\ Noted({}, {})

\* update tasks set task, due_date where id = t and user_id = u
TasksAfterUpdate(t, u, title, due) ==
    [x \in DOMAIN tasks |->
        IF x = t /\ tasks[x].user_id = u
        THEN [tasks[x] EXCEPT !.task = title, !.due_date = due]
        ELSE tasks[x]]

\* delete from reminder_dates where task_id = t
RemindersAfterDeleteOf(t) == {r \in reminders : r.task_id # t}

\* the title, the due date and the reminder rows task t has in the store
TaskState(t) ==
    IF t \in DOMAIN tasks
    THEN [task |-> tasks[t].task, due_date |-> tasks[t].due_date,
          rows |-> RowsOf(t)]
    ELSE [task |-> "", due_date |-> 0, rows |-> RowsOf(t)]

\* web, edit_task POST: the input checks, then the update of the task row
edit_task_begin ==
    /\ req = NoReq
    /\ CanTake
    /\ served' = served + 1
    /\ \E t \in TaskIds, u \in Users, title \in Titles, due \in DueInputs,
          n \in CountInputs, ok \in BOOLEAN :
        IF n < MinReminders
        THEN /\ Done("edit", "invalid", t, n)
             /\ UNCHANGED tasks
        ELSE /\ nextRow + n - 1 <= MaxRowId
             /\ IF ok
                THEN /\ tasks' = TasksAfterUpdate(t, u, title, due)
                     /\ req' = [op |-> "edit", via |-> "web", pc |-> "delete",
                                id |-> t, user |-> u, title |-> title,
                                due |-> due, n |-> n, was |-> TaskState(t)]
                     /\ last' = NoLast
                ELSE /\ Done("edit", "failed", t, n)
                     /\ UNCHANGED tasks
    /\ calm' = NoCalm
    /\ step' = NoStep
    /\ UNCHANGED <<today, reminders, nextTask, nextRow, loops>>
    /\ Noted({}, {})

\* edit_task, the delete of the task's reminder rows
edit_task_delete ==
    /\ req.op = "edit"
    /\ req.pc = "delete"
    /\ \E ok \in BOOLEAN :
        IF ok
        THEN /\ reminders' = RemindersAfterDeleteOf(req.id)
             /\ req' = [req EXCEPT !.pc = "insert"]
             /\ last' = NoLast
        ELSE /\ UNCHANGED reminders
             /\ Done("edit", "failed", req.id, req.n)
    /\ UNCHANGED served
    /\ calm' = NoCalm
    /\ step' = NoStep
    /\ UNCHANGED <<today, tasks, nextTask, nextRow, loops>>
    /\ Noted({}, {})

\* edit_task, the new reminder dates and their insert
edit_task_insert ==
    /\ req.op = "edit"
    /\ req.pc = "insert"
    /\ \E late \in BOOLEAN, ok \in BOOLEAN :
        LET dates == ReminderDates(today, late, req.due, req.n)
        IN  IF ok /\ CanInsertReminders(req.id)
            THEN /\ reminders' = RemindersAfterInsert(req.id, dates)
                 /\ nextRow' = nextRow + Len(dates)
                 /\ Done("edit", "ok", req.id, req.n)
            ELSE /\ UNCHANGED <<reminders, nextRow>>
                 /\ Done("edit", "failed", req.id, req.n)
    /\ UNCHANGED served
    /\ calm' = NoCalm
    /\ step' = NoStep
    /\ UNCHANGED <<today, tasks, nextTask, loops>>
    /\ Noted({}, {})

\* midnight passes
Tick ==
    /\ today < MaxDay
    /\ today' = today + 1
    /\ calm' = NoCalm
    /\ step' = NoStep
    /\ last' = NoLast
    /\ UNCHANGED <<store, loops, req, served, history>>

Next ==
    \/ on_ready
    \/ \E l \in LoopIds : reminder_loop(l)
    \/ schedule_begin
    \/ dashboard_begin
    \/ add_task_with_reminders
    \/ delete_task
    \/ remove
    \/ edit_task_begin
    \/ edit_task_delete
    \/ edit_task_insert
    \/ Tick

Spec == Init /\ [][Next]_vars

\* ---------------------------------------------------------------- liveness
\* the store carries out what the step asks of it
StoreWorks == step'.fetch # "failed" /\ step'.delete # "failed"

\* the bot alone, with a store that works: on_ready, the reminder loops and
\* the clock
LiveNext ==
    \/ on_ready
    \/ \E l \in LoopIds : reminder_loop(l) /\ StoreWorks
    \/ Tick

\* the event loop runs every coroutine that is ready, and every sleep ends:
\* a reminder loop that can take its next step takes it
LiveSpec ==
    /\ Init
    /\ [][LiveNext]_vars
    /\ \A l \in LoopIds : WF_vars(reminder_loop(l) /\ StoreWorks)

\* =================================================================== claims
\* loop l is in a cycle: past its sleep, not yet back in it
InCycle(l) == loops[l].pc \notin {"off", "sleep"}

\* the items loop l has left to process in its cycle
Left(L) == Len(L.past_due_tasks) + Len(L.reminders) + Len(L.past_due_reminders)

\* the step is a turn of loop l in one of the given phases
Turn(l, phases) == loops[l].pc \in phases /\ loops'[l] # loops[l]

\* the reminder rows some cycle in progress found to be stale
StaleFound ==
    UNION {UNION {loops[l].past_due_reminders[k].rows :
                    k \in 1..Len(loops[l].past_due_reminders)} : l \in LoopIds}

\* C1: a past-due task is announced once: the past-due phase never makes a
\* notify attempt for a task that it has announced and deleted before.
C1_AnnouncedOnce ==
    [][\A l \in LoopIds :
        (Turn(l, {"ptask"}) /\ step'.notify # "none")
            => Head(loops[l].past_due_tasks).id \notin taskNotes]_vars

\* C2: a reminder is announced at most once: the today's-reminder phase never
\* makes a notify attempt for a reminder row that it has announced and deleted
\* before.
C2_ReminderOnce ==
    [][\A l \in LoopIds :
        (Turn(l, {"prem"}) /\ step'.notify # "none")
            => Head(loops[l].reminders).rows \cap rowNotes = {}]_vars

\* C3: the cycle that follows a cycle of the same loop, with no store error,
\* no change of date and no other step in between, finds its three lists
\* empty (and so sends nothing and meets no error).
C3_SecondScanEmpty ==
    \A l \in LoopIds :
        (calm.loop = l /\ calm.again) => Left(loops[l]) = 0

\* C4: at most one reconciliation cycle is in progress at any moment.
C4_OneCycle == Cardinality({l \in LoopIds : InCycle(l)}) <= 1

\* C5: every reminder row references a task that is in the store.
C5_NoOrphans == \A r \in reminders : r.task_id \in DOMAIN tasks

\* a web edit_task stands between its delete and its insert of reminder rows
\* when the past-due phase deletes the task it edits
C5_EditMeetsDelete ==
    /\ req.op = "edit"
    /\ req.pc = "insert"
    /\ req.id \notin DOMAIN tasks
    /\ step.phase = "ptask"
    /\ step.delete = "done"
    /\ step.id = req.id

\* C6: no reminder row carries the id of a task that was deleted (the ids
\* below nextTask were all assigned; those not in the store were deleted).
C6_DeletedHaveNoReminders ==
    \A t \in (1..(nextTask - 1)) \ DOMAIN tasks : RowsOf(t) = {}

\* the owner's delete_task, the only step since the start, removed the task
\* found in the store together with its reminder row
C6_DeletedWithReminder ==
    /\ last.op = "delete"
    /\ last.result = "ok"
    /\ served = 1
    /\ Started = 0
    /\ nextRow = 2
    /\ reminders = {}

\* C7: no notify attempt is made for a reminder that a scan found stale, and
\* a cycle does not end before each stale reminder it found was handed to the
\* cleanup phase.
C7_StaleRemovedUnannounced ==
    [][\A l \in LoopIds :
        /\ (Turn(l, {"prem"}) /\ step'.notify # "none")
            => Head(loops[l].reminders).rows \cap StaleFound = {}
        /\ (InCycle(l) /\ loops'[l].pc = "sleep")
            => Len(loops[l].past_due_reminders)
                   <= (IF loops[l].pc = "cleanup" THEN 1 ELSE 0)]_vars

\* C8: after the notify attempt for a past-due task or a reminder due today,
\* whatever its outcome, the delete of that task or reminder is attempted (and
\* when the store carries it out the record is gone), and the cycle goes on
\* with the items it has left.
C8_CleanupAfterNotify ==
    [][\A l \in LoopIds :
        (Turn(l, {"ptask", "prem"}) /\ step'.notify # "none")
            => /\ step'.delete \in {"done", "failed"}
               /\ step'.delete = "done" =>
                    IF loops[l].pc = "ptask"
                    THEN step'.id \notin DOMAIN tasks'
                    ELSE \A r \in reminders' :
                            ~(r.task_id = step'.id
                              /\ r.reminder_date = loops[l].today_str)
               /\ Left(loops'[l]) = Left(loops[l]) - 1]_vars

\* a notify attempt failed and the past-due task was deleted all the same
C8_FailedThenDeleted ==
    /\ step.phase = "ptask"
    /\ step.notify = "failed"
    /\ step.delete = "done"
    /\ step.id \notin DOMAIN tasks

\* C9: a turn of the loop on one item, whatever happens in it, leaves every
\* other item of the cycle to be processed: the items left are one fewer.
C9_ItemsIsolated ==
    [][\A l \in LoopIds :
        Turn(l, {"ptask", "prem", "cleanup"})
            => Left(loops'[l]) = Left(loops[l]) - 1]_vars

\* C10: when add_task_with_reminders has ended, the task and all its reminder
\* rows are in the store, or neither the task nor any reminder row of it is.
C10_CreateAtomic ==
    (last.op = "create" /\ last.id # 0)
        => \/ /\ last.id \in DOMAIN tasks
              /\ Cardinality(RowsOf(last.id)) = last.n
           \/ /\ last.id \notin DOMAIN tasks
              /\ RowsOf(last.id) = {}

\* C11: when edit_task's update sequence has ended, the task has the new
\* title, the new due date and exactly the new reminder rows, or else its
\* title, its due date and its reminder rows are what they were before the
\* edit.
C11_EditAtomic ==
    [][(req.op = "edit" /\ req' = NoReq)
        => \/ /\ req.id \in DOMAIN tasks'
              /\ tasks'[req.id].task = req.title
              /\ tasks'[req.id].due_date = req.due
              /\ {r \in reminders' : r.task_id = req.id} = reminders' \ reminders
              /\ Cardinality(reminders' \ reminders) = req.n
           \/ /\ req.was.rows = {r \in reminders' : r.task_id = req.id}
              /\ req.id \in DOMAIN tasks'
                    => /\ tasks'[req.id].task = req.was.task
                       /\ tasks'[req.id].due_date = req.was.due_date]_vars

\* C12: a create request whose reminder count is outside 1..10 ends as invalid
\* input with the tasks and reminder_dates tables as they were, and no create
\* with such a count gets as far as the store.
C12_BadCountRejected ==
    /\ [](req.op = "create" =>
            (IF req.via = "bot" THEN Len(req.dates) ELSE req.n)
                \in MinReminders..MaxReminders)
    /\ [][(last'.op = "create" /\ last'.n \notin MinReminders..MaxReminders)
            => /\ last'.result = "invalid"
               /\ UNCHANGED <<tasks, reminders>>]_vars

\* a create request with a count of 11 has been rejected
C12_ElevenRejected ==
    /\ last.op = "create"
    /\ last.result = "invalid"
    /\ last.n = MaxReminders + 1

\* the step is !schedule computing its reminder dates
BotComputes == req.op = "none" /\ req'.op = "create" /\ req'.via = "bot"

\* the step is the web's add_task_with_reminders or edit_task computing its
\* reminder dates and inserting them
WebComputes ==
    req.op \in {"create", "edit"} /\ req.via = "web" /\ last'.result = "ok"

\* the reminder dates the step has inserted, in the order of their rows
Inserted ==
    [k \in 1..(nextRow' - nextRow) |->
        (CHOOSE r \in reminders' : r.id = nextRow + k - 1).reminder_date]

\* dates are n dates from now to due, in non-decreasing order
WithinOrdered(dates, now, due, n) ==
    /\ Len(dates) = n
    /\ \A k \in 1..Len(dates) : now <= dates[k] /\ dates[k] <= due
    /\ \A k \in 1..(Len(dates) - 1) : dates[k] <= dates[k + 1]

\* C13: for a count in 1..10 and a due date on or after today, the reminder
\* dates computed for a create or an edit are exactly count dates, each on or
\* after today and on or before the due date, in non-decreasing order.
C13_ScheduleInRange ==
    [][/\ (BotComputes /\ req'.n \in MinReminders..MaxReminders
                /\ tasks'[req'.id].due_date >= today)
            => WithinOrdered(req'.dates, today, tasks'[req'.id].due_date,
                             req'.n)
       /\ (WebComputes /\ req.n \in MinReminders..MaxReminders
                /\ req.due >= today)
            => WithinOrdered(Inserted, today, req.due, req.n)]_vars

\* today + round(i * days_left / (n + 1)), i = 1..n, with days_left the
\* calendar days from today's date to the due date
CalendarDates(now, due, n) == [i \in 1..n |-> now + Round((due - now) * i, n + 1)]

\* C14: the i-th reminder date computed for a create is today +
\* round(i * days_left / (count + 1)) with days_left the calendar days from
\* today's date to the due date, whatever the time of day.
C14_ScheduleByCalendar ==
    [][/\ BotComputes
            => req'.dates = CalendarDates(today, tasks'[req'.id].due_date,
                                          req'.n)
       /\ (WebComputes /\ req.op = "create")
            => Inserted = CalendarDates(today, req.due, req.n)]_vars

\* C15: no reminder row is inserted with a date later than the due date of
\* the task it belongs to.
C15_NotAfterDue ==
    [][\A r \in reminders' \ reminders :
        r.task_id \in DOMAIN tasks'
            => r.reminder_date <= tasks'[r.task_id].due_date]_vars

\* the dashboard's list for user u: the user's tasks, each with the number of
\* its reminder rows
TasksWithReminders(u) ==
    {[id |-> t, reminders |-> Cardinality({r.id : r \in RowsOf(t)})] :
        t \in {x \in DOMAIN tasks : tasks[x].user_id = u}}

C17_DeleteByOwnerOnly ==
    [][last'.op = "delete" =>
        LET t == last'.id
            owned == t \in DOMAIN tasks /\ tasks[t].user_id = last'.user
        IN  /\ last'.result = "ok" <=> tasks' # tasks
            /\ last'.result = "ok" =>
                    /\ owned
                    /\ tasks' = TasksAfterDelete({t})
                    /\ reminders' = RemindersAfterCascade({t})
            /\ last'.result # "ok" => UNCHANGED <<tasks, reminders>>
            /\ ~owned => last'.result \in {"notfound", "failed"}
            /\ last'.result = "notfound" => ~owned]_vars

\* a user who does not own the task asked for its delete: not found, and the
\* task is still there
C17_OthersTaskKept ==
    /\ last.op = "delete"
    /\ last.result = "notfound"
    /\ last.id \in DOMAIN tasks
    /\ tasks[last.id].user_id \in Users \ {last.user}

\* C18: no task has more than 10 reminder rows.
C18_AtMostTen ==
    \A t \in DOMAIN tasks : Cardinality(RowsOf(t)) <= MaxReminders

\* C19: every task in the store has a non-empty title.
C19_TitleNotEmpty == \A t \in DOMAIN tasks : tasks[t].task # ""

\* the place of a phase in the cycle
Rank(pc) ==
    CASE pc = "ptask" -> 1
      [] pc = "prem" -> 2
      [] pc = "cleanup" -> 3
      [] OTHER -> 0

\* C20: within a cycle the today's-reminder phase acts only when no past-due
\* task is left, the cleanup phase only when no past-due task and no
\* reminder due today is left, and the cycle never goes back to an earlier
\* phase.
C20_PhaseOrder ==
    [][\A l \in LoopIds :
        /\ Turn(l, {"prem"}) => Len(loops[l].past_due_tasks) = 0
        /\ Turn(l, {"cleanup"}) =>
                Len(loops[l].past_due_tasks) + Len(loops[l].reminders) = 0
        /\ (Rank(loops[l].pc) > 0 /\ Rank(loops'[l].pc) > 0)
                => Rank(loops'[l].pc) >= Rank(loops[l].pc)]_vars

\* the only loop has just ended its past-due phase with a delete attempt; a
\* reminder due today and a stale reminder are still to come
C20_AllThreePhases ==
    /\ Started = 1
    /\ step.phase = "ptask"
    /\ step.delete \in {"done", "failed"}
    /\ \E l \in LoopIds :
        /\ loops[l].pc = "prem"
        /\ Len(loops[l].past_due_reminders) > 0

\* C21: a turn of the today's-reminder phase or of the cleanup phase leaves
\* the tasks table alone and adds no reminder row; the rows the today's phase
\* removes belong to the processed task and are dated the cycle's today, the
\* rows the cleanup phase removes belong to the processed task and are dated
\* before the cycle's today.
C21_OnlyDueRowsRemoved ==
    [][\A l \in LoopIds :
        /\ Turn(l, {"prem"}) =>
            /\ tasks' = tasks
            /\ reminders' \subseteq reminders
            /\ \A r \in reminders \ reminders' :
                /\ r.task_id = Head(loops[l].reminders).id
                /\ r.reminder_date = loops[l].today_str
        /\ Turn(l, {"cleanup"}) =>
            /\ tasks' = tasks
            /\ reminders' \subseteq reminders
            /\ \A r \in reminders \ reminders' :
                /\ r.task_id = Head(loops[l].past_due_reminders).id
                /\ r.reminder_date < loops[l].today_str]_vars

\* the today's phase has removed a task's reminder for today, and the task
\* and a later reminder of it are still there
C21_LaterReminderKept ==
    /\ step.phase = "prem"
    /\ step.delete = "done"
    /\ step.id \in DOMAIN tasks
    /\ \E r \in RowsOf(step.id) : r.reminder_date > today

\* C22: the past-due phase deletes no task whose due date, when it is
\* deleted, is after today.
C22_DeletedIsDue ==
    [][\A l \in LoopIds :
        (Turn(l, {"ptask"}) /\ step'.delete = "done"
            /\ Head(loops[l].past_due_tasks).id \in DOMAIN tasks)
            => tasks[Head(loops[l].past_due_tasks).id].due_date <= today]_vars

\* C23: the loop sends no notification, neither for a past-due task nor for
\* a reminder due today, about a task that is not in the store when the
\* notification is sent.
C23_NotifiedIsStored ==
    [][\A l \in LoopIds :
        /\ (Turn(l, {"ptask"}) /\ step'.notify = "delivered")
            => Head(loops[l].past_due_tasks).id \in DOMAIN tasks
        /\ (Turn(l, {"prem"}) /\ step'.notify = "delivered")
            => Head(loops[l].reminders).id \in DOMAIN tasks]_vars

\* user u is not the owner of a task t in the store
NotOwner(t, u) == t \notin DOMAIN tasks \/ tasks[t].user_id # u

\* C24: no step of an edit_task request by a user who does not own task t
\* changes the tasks table or the reminder rows of t.
C24_ForeignEditChangesNothing ==
    [][/\ (req.op = "none" /\ req'.op = "edit"
                /\ NotOwner(req'.id, req'.user))
            => tasks' = tasks
       /\ (req.op = "edit" /\ req' # req /\ NotOwner(req.id, req.user))
            => /\ tasks' = tasks
               /\ {r \in reminders' : r.task_id = req.id} = RowsOf(req.id)]_vars

\* C25: once a reminder loop runs, every task whose due date is on or before
\* today is eventually out of the store, and so is every reminder row dated
\* on or before today.
C25_DueEventuallyRemoved ==
    /\ \A t \in TaskIds :
        (Started >= 1 /\ t \in DOMAIN tasks /\ tasks[t].due_date <= today)
            ~> (t \notin DOMAIN tasks)
    /\ \A k \in RowIds :
        (Started >= 1
            /\ \E r \in reminders : r.id = k /\ r.reminder_date <= today)
            ~> (\A r \in reminders : r.id # k)

====
